---- MODULE Spec2Model ----
(***************************************************************************)
(* Model of crossbar/controller/node.py: Node.start, the standalone        *)
(* startup sequencer Node._startup_standalone and the container component  *)
(* watchdog (component_exited + reactor.callLater(2, unsubscribe)).        *)
(*                                                                         *)
(* The sequencer is an inlineCallbacks generator: it runs synchronously    *)
(* from one yield to the next.  One action of the model is one such        *)
(* synchronous segment (Run), triggered by the result of the awaited call. *)
(* Time is kept relative: pending delayed calls carry their remaining      *)
(* delay and started container components carry the time elapsed since     *)
(* their start call returned.  A call in flight may return or fail at any  *)
(* time.  A delayed call that is due fires before more time passes on a    *)
(* running reactor.  reactor.stop() only requests the stop: results,       *)
(* events and due delayed calls may still be delivered afterwards, but no  *)
(* further time is observed.  An on_component_stop event of a component    *)
(* is published at most once, after its start call returned.               *)
(***************************************************************************)
EXTENDS Integers, Sequences, FiniteSets, TLC

(***************************************************************************)
(* Bounds of the explored configurations.                                  *)
(***************************************************************************)
MaxWorkers == 2     \* workers per config (mixed worker types)
MaxRealms == 2      \* realms of a router worker
MaxRoles == 2       \* roles of a realm
MaxList == 3        \* entries of a flat list whose ids are varied
MaxComps == 2       \* components of a container worker
MaxAge == 4         \* a started component is tracked while its age is below this
MaxEvents == 2      \* on_component_stop events delivered in one run
MaxFiles == 2       \* schema files of a realm

(***************************************************************************)
(* Program constant: reactor.callLater(2, component_stop_sub.unsubscribe)  *)
(***************************************************************************)
GraceShort == 1

Grace == 2

(***************************************************************************)
(* dict helpers: specs are records; an absent key is absent from DOMAIN.   *)
(***************************************************************************)
EmptyDict == [k \in {} |-> 0]

Has(spec, key) == key \in DOMAIN spec

Get(spec, key, default) == IF key \in DOMAIN spec THEN spec[key] ELSE default

Pop(spec, key) == [k \in (DOMAIN spec) \ {key} |-> spec[k]]

With(spec, key, val) ==
    [k \in (DOMAIN spec) \cup {key} |-> IF k = key THEN val ELSE spec[k]]

Digit(d) ==
    CASE d = 0 -> "0" [] d = 1 -> "1" [] d = 2 -> "2" [] d = 3 -> "3"
      [] d = 4 -> "4" [] d = 5 -> "5" [] d = 6 -> "6" [] d = 7 -> "7"
      [] d = 8 -> "8" [] d = 9 -> "9"

RECURSIVE ToStr(_)
ToStr(n) == IF n < 10 THEN Digit(n) ELSE ToStr(n \div 10) \o Digit(n % 10)

\* 'worker{}'.format(worker_no), 'realm{}'.format(realm_no), ...
Format(kind, no) == kind \o ToStr(no)

\* mutant: the counter is advanced for explicitly named entries too
ResolveIdCountsNamed(spec, kind, no) ==
    IF Has(spec, "id")
    THEN [id |-> spec.id, spec |-> Pop(spec, "id"), no |-> no + 1]
    ELSE [id |-> Format(kind, no), spec |-> spec, no |-> no + 1]

\* if 'id' in x: x_id = x.pop('id') else: x_id = '<kind>{}'.format(x_no); x_no += 1
ResolveId(spec, kind, no) ==
    IF Has(spec, "id")
    THEN [id |-> spec.id, spec |-> Pop(spec, "id"), no |-> no]
    ELSE [id |-> Format(kind, no), spec |-> spec, no |-> no + 1]

(***************************************************************************)
(* The configurations explored (the validated config tree of               *)
(* check_config_file).                                                     *)
(***************************************************************************)
SeqsUpTo(S, n) == UNION {[1..k -> S] : k \in 0..n}

ExplicitIds(kind) == {"custom", Format(kind, 1)}

IdVariants(base, kind) == {base} \cup {With(base, "id", i) : i \in ExplicitIds(kind)}

RoleSpecs == IdVariants([name |-> "anonymous"], "role")
ComponentSpecs == IdVariants([type |-> "class"], "component")
TransportSpecs == IdVariants([type |-> "web"], "transport")

\* realm lists: ids varied; the roles of one realm varied; several realms with roles
RealmLists ==
    SeqsUpTo(IdVariants([name |-> "realm"], "realm"), MaxRealms)
    \cup {<<[name |-> "realm", roles |-> rs]>> : rs \in SeqsUpTo(RoleSpecs, MaxRoles)}
    \cup {[i \in 1..k |->
             [name |-> "realm",
              roles |-> [j \in 1..(MaxRoles + 1 - i) |-> [name |-> "anonymous"]]]]
          : k \in 1..MaxRealms}

OptionSets ==
    {[k \in ks |-> "v"] : ks \in SUBSET {"pythonpath", "cpu_affinity"}}

\* workers of each type whose generic setup keys are varied
SetupWorkers ==
    UNION {
      { [type |-> "router", options |-> o, transports |-> <<[type |-> "web"]>>],
        [type |-> "router", options |-> o, manhole |-> "m",
         transports |-> <<[type |-> "web"]>>],
        [type |-> "container", options |-> o],
        [type |-> "container", options |-> o, manhole |-> "m"],
        [type |-> "guest", options |-> o],
        [type |-> "guest", options |-> o, manhole |-> "m"] }
      : o \in OptionSets }

\* routers whose sub-resource lists are varied, one list at a time
ListWorkers ==
    {[type |-> "router", realms |-> rs, transports |-> <<>>] :
        rs \in RealmLists}
    \cup {[type |-> "router", components |-> cs, transports |-> <<>>] :
        cs \in SeqsUpTo(ComponentSpecs, MaxList)}
    \cup {[type |-> "router", transports |-> ts] :
        ts \in SeqsUpTo(TransportSpecs, MaxList)}
    \cup {[type |-> "router"]}
    \cup {[type |-> "container", components |-> cs] :
        cs \in SeqsUpTo(ComponentSpecs, MaxComps)}

\* routers with one realm whose schema files are varied
SchemaWorkers ==
    {[type |-> "router",
      realms |-> <<[name |-> "realm", schemas |-> fs]>>,
      transports |-> <<>>] :
        fs \in SeqsUpTo({"a.md", "b.md", "mixed.md", "junk.md", "missing.md"}, MaxFiles)}

\* the worker kinds that are combined into longer worker lists
BasicWorkers ==
    { [type |-> "router", transports |-> <<[type |-> "web"], [type |-> "web"]>>],
      [type |-> "router",
       realms |-> <<[name |-> "realm",
                     roles |-> <<[name |-> "anonymous"], [name |-> "backend"]>>]>>,
       components |-> <<[type |-> "class"], [type |-> "class"]>>],
      [type |-> "container", options |-> [pythonpath |-> "v"],
       components |-> <<[type |-> "class"]>>],
      [type |-> "guest"],
      [type |-> "bogus"] }

GuestSpecs == IdVariants([type |-> "guest"], "worker")

ControllerSpecs ==
    {[k \in ks |-> "v"] : ks \in SUBSET {"manhole", "transport"}}

Configs ==
    {[controller |-> EmptyDict, workers |-> <<w>>] : w \in SetupWorkers \cup ListWorkers \cup SchemaWorkers}
    \cup {[controller |-> EmptyDict, workers |-> ws] :
            ws \in SeqsUpTo(BasicWorkers, MaxWorkers)}
    \cup {[controller |-> EmptyDict, workers |-> ws] :
            ws \in SeqsUpTo(GuestSpecs, MaxList)}
    \cup {[controller |-> c, workers |-> ws] :
            c \in ControllerSpecs, ws \in {<<>>, <<[type |-> "guest"]>>}}
    \cup {EmptyDict, [workers |-> <<>>]}
    \cup {[manager |-> [id |-> "M"], controller |-> c,
           workers |-> <<[type |-> "guest"]>>] :
            c \in {EmptyDict, [id |-> "C"]}}
    \cup {[controller |-> [id |-> "C"], workers |-> <<>>]}

(***************************************************************************)
(* State.                                                                  *)
(***************************************************************************)
VARIABLES
    config,        \* self._config; resolved 'id' keys are popped from it
    cfg0,          \* history: the config as loaded by check_config_file
    node_id,       \* self._node_id
    pc,            \* position of start()
    sq,            \* locals of _startup_standalone
    calls,         \* history: the calls issued to the controller, with state
    subs,          \* per worker: the on_component_stop subscription
    timers,        \* pending reactor.callLater calls
    age,           \* started container components -> time since start returned
    events,        \* history: delivered on_component_stop events
    reactor,       \* self._reactor
    fatal,         \* history: what the except clause of start() did
    controller_session   \* self._controller is set

vars == <<config, cfg0, node_id, pc, sq, calls, subs, timers, age, events,
          reactor, fatal, controller_session>>

Hostname == "localhost"

KnownTypes == {"router", "container", "guest"}

NoId == ""

Frame0 ==
    [pos |-> "ctl_manhole", wi |-> 0, ri |-> 0, roi |-> 0, ci |-> 0, ti |-> 0,
     worker_no |-> 0, realm_no |-> 0, role_no |-> 0, component_no |-> 0,
     transport_no |-> 0, worker_id |-> NoId, realm_id |-> NoId,
     await |-> 0, err |-> ""]

Init ==
    /\ config \in Configs
    /\ cfg0 = config
    /\ node_id = NoId
    /\ pc = "init"
    /\ sq = Frame0
    /\ calls = <<>>
    /\ subs = [w \in 1..Len(Get(config, "workers", <<>>)) |-> "none"]
    /\ timers = {}
    /\ age = EmptyDict
    /\ events = {}
    /\ reactor = [running |-> TRUE, stops |-> 0]
    /\ fatal = "none"
    /\ controller_session = FALSE

(***************************************************************************)
(* The reactor: stop() raises ReactorNotRunning unless it is running.      *)
(***************************************************************************)
ReactorStop(r) ==
    IF r.running
    THEN [reactor |-> [r EXCEPT !.running = FALSE, !.stops = @ + 1], raised |-> ""]
    ELSE [reactor |-> r, raised |-> "ReactorNotRunning"]

(***************************************************************************)
(* _startup_standalone.  A machine m = [sq, config, calls, timers, out] is *)
(* the sequencer between two suspension points; out is "run" while it      *)
(* executes, "await" once it has yielded on a call, "done" when the        *)
(* generator returned and "raise" when an exception left it.               *)
(***************************************************************************)
CurWorker(m) == m.config.workers[m.sq.wi]

Goto(m, pos) == [m EXCEPT !.sq.pos = pos]

Raise(m, err) == [m EXCEPT !.sq.err = err, !.out = "raise"]

CallRec(m, op, id, rix, ix, arg) ==
    [op |-> op, wi |-> m.sq.wi, worker_id |-> m.sq.worker_id,
     realm_id |-> IF op = "start_router_realm_role" THEN m.sq.realm_id ELSE NoId,
     id |-> id, rix |-> rix, ix |-> ix, arg |-> arg, st |-> "pending"]

\* mutant: the call is issued and the sequencer goes on without its result
CallNoYield(m, op, id, rix, ix, arg, next) ==
    [m EXCEPT !.calls = Append(@, CallRec(m, op, id, rix, ix, arg)),
              !.sq.pos = next]

\* yield self._controller.<call>(...): issue the call and suspend on it
Call(m, op, id, rix, ix, arg, next) ==
    [m EXCEPT !.calls = Append(@, CallRec(m, op, id, rix, ix, arg)),
              !.sq.pos = next,
              !.sq.await = Len(m.calls) + 1,
              !.out = "await"]

CtlManhole(m) ==
    LET controller == Get(m.config, "controller", EmptyDict) IN
    IF Has(controller, "manhole")
    THEN Call(m, "controller.start_manhole", NoId, 0, 0, controller.manhole,
              "ctl_transport")
    ELSE Goto(m, "ctl_transport")

CtlTransport(m) ==
    LET controller == Get(m.config, "controller", EmptyDict) IN
    IF Has(controller, "transport")
    THEN Call(m, "controller.start_management_transport", NoId, 0, 0,
              controller.transport, "workers_init")
    ELSE Goto(m, "workers_init")

\* worker_no = 1; for worker in config.get('workers', []):
WorkersInit(m) == Goto([m EXCEPT !.sq.worker_no = 1, !.sq.wi = 1], "workers")

\* mutant: an unrecognized worker type is skipped instead of raising
UnknownTypeSkipped(m) == Goto(m, "next_worker")

UnknownType(m) == Raise(m, "logic error")

WorkerHead(m) ==
    IF m.sq.wi > Len(Get(m.config, "workers", <<>>))
    THEN [m EXCEPT !.out = "done"]
    ELSE
      LET r == ResolveId(CurWorker(m), "worker", m.sq.worker_no)
          n == [m EXCEPT !.config.workers[m.sq.wi] = r.spec,
                         !.sq.worker_id = r.id,
                         !.sq.worker_no = r.no]
          worker_type == r.spec.type
          worker_options == Get(r.spec, "options", EmptyDict)
      IN  CASE worker_type = "router" ->
                 Call(n, "start_router", r.id, 0, 0, worker_options, "pythonpath")
            [] worker_type = "container" ->
                 Call(n, "start_container", r.id, 0, 0, worker_options, "pythonpath")
            [] worker_type = "guest" ->
                 Call(n, "start_guest", r.id, 0, 0, r.spec, "next_worker")
            [] OTHER -> UnknownType(n)

Pythonpath(m) ==
    LET worker_options == Get(CurWorker(m), "options", EmptyDict) IN
    IF Has(worker_options, "pythonpath")
    THEN Call(m, "add_pythonpath", NoId, 0, 0, worker_options.pythonpath,
              "cpu_affinity")
    ELSE Goto(m, "cpu_affinity")

CpuAffinity(m) ==
    LET worker_options == Get(CurWorker(m), "options", EmptyDict) IN
    IF Has(worker_options, "cpu_affinity")
    THEN Call(m, "set_cpu_affinity", NoId, 0, 0, worker_options.cpu_affinity,
              "manhole")
    ELSE Goto(m, "manhole")

\* mutant: the manhole is looked for among the options of the worker
ManholeFromOptions(m) ==
    LET worker_options == Get(CurWorker(m), "options", EmptyDict) IN
    IF Has(worker_options, "manhole")
    THEN Call(m, "start_manhole", NoId, 0, 0, worker_options.manhole, "subres")
    ELSE Goto(m, "subres")

Manhole(m) ==
    IF Has(CurWorker(m), "manhole")
    THEN Call(m, "start_manhole", NoId, 0, 0, CurWorker(m).manhole, "subres")
    ELSE Goto(m, "subres")

\* mutant: the subscribe call is issued but its result is not awaited
SubResNoYield(m) ==
    LET worker_type == CurWorker(m).type IN
    IF worker_type = "router"
    THEN Goto([m EXCEPT !.sq.realm_no = 1, !.sq.ri = 1], "realms")
    ELSE CallNoYield([m EXCEPT !.sq.component_no = 1, !.sq.ci = 1],
                     "subscribe", NoId, 0, 0, "on_component_stop", "ccomponents")

\* if worker_type == 'router': realm_no = 1 ...
\* elif worker_type == 'container': component_no = 1; yield subscribe(...)
SubRes(m) ==
    LET worker_type == CurWorker(m).type IN
    IF worker_type = "router"
    THEN Goto([m EXCEPT !.sq.realm_no = 1, !.sq.ri = 1], "realms")
    ELSE Call([m EXCEPT !.sq.component_no = 1, !.sq.ci = 1],
              "subscribe", NoId, 0, 0, "on_component_stop", "ccomponents")

(***************************************************************************)
(* Schema extraction from WAMP-flavored Markdown.  A file is the sequence  *)
(* of its ```javascript blocks as schema_pat.findall returns them; a block *)
(* is what json.loads makes of its text: an error, a value that is not an  *)
(* object, or an object with its members.                                  *)
(***************************************************************************)
SchemaKey == "$schema"

WampSchema == "http://wamp.ws/schema#"

Malformed == [kind |-> "malformed", members |-> EmptyDict]

JsonList == [kind |-> "list", members |-> EmptyDict]

Object(members) == [kind |-> "object", members |-> members]

Declaration(members) == Object(With(members, SchemaKey, WampSchema))

DeclA == Declaration([uri |-> "x", a |-> "1"])

DeclB == Declaration([uri |-> "x", a |-> "2", b |-> "3"])

DeclY == Declaration([uri |-> "y", c |-> "4"])

\* the Markdown files below cbdir
Files ==
    [f \in {"a.md", "b.md", "mixed.md", "junk.md"} |->
       CASE f = "a.md" -> <<DeclA>>
         [] f = "b.md" -> <<DeclB>>
         [] f = "mixed.md" ->
              <<Malformed, DeclB, Object([uri |-> "x", a |-> "9"]), DeclA, DeclY>>
         [] f = "junk.md" ->
              <<JsonList,
                Object(With([uri |-> "x", a |-> "8"], SchemaKey, "http://json-schema.org/schema#")),
                Declaration([a |-> "7"])>>]

FileNames == DOMAIN Files \cup {"missing.md"}

\* schemas = None
NoSchemas == [given |-> FALSE, uris |-> EmptyDict]

\* mutant: members already declared for the uri are kept
UpdateKeepsOld(d, o) ==
    [k \in DOMAIN d \cup DOMAIN o |-> IF k \in DOMAIN d THEN d[k] ELSE o[k]]

\* dict.update
Update(d, o) ==
    [k \in DOMAIN d \cup DOMAIN o |-> IF k \in DOMAIN o THEN o[k] ELSE d[k]]

\* the body of: for d in schema_pat.findall(f.read()), with its try/except
Declare(st, d) ==
    IF d.kind = "malformed"
    THEN [st EXCEPT !.warnings = @ + 1]
    ELSE
      LET o == d.members IN
      IF d.kind = "object" /\ Has(o, SchemaKey) /\ o[SchemaKey] = WampSchema
      THEN IF ~Has(o, "uri")
           THEN [st EXCEPT !.warnings = @ + 1]
           ELSE [st EXCEPT
                   !.schemas = With(@, o.uri, Update(Get(@, o.uri, EmptyDict), o)),
                   !.cnt_decls = @ + 1]
      ELSE st

RECURSIVE ProcessBlocks(_, _, _)
ProcessBlocks(st, blocks, k) ==
    IF k > Len(blocks) THEN st
    ELSE ProcessBlocks(Declare(st, blocks[k]), blocks, k + 1)

\* for schema_file in realm.pop('schemas'): with open(schema_file, 'r') as f: ...
RECURSIVE ProcessFiles(_, _, _)
ProcessFiles(st, schema_files, k) ==
    IF k > Len(schema_files) THEN st
    ELSE IF schema_files[k] \notin DOMAIN Files
         THEN [st EXCEPT !.err = "IOError"]
         ELSE ProcessFiles(
                ProcessBlocks([st EXCEPT !.cnt_files = @ + 1],
                              Files[schema_files[k]], 1),
                schema_files, k + 1)

ExtractSchemas(schema_files) ==
    ProcessFiles([schemas |-> EmptyDict, cnt_files |-> 0, cnt_decls |-> 0,
                  warnings |-> 0, err |-> ""],
                 schema_files, 1)

Realms(m) ==
    LET realms == Get(CurWorker(m), "realms", <<>>)
        ri == m.sq.ri
    IN  IF ri > Len(realms)
        THEN Goto([m EXCEPT !.sq.component_no = 1, !.sq.ci = 1], "rcomponents")
        ELSE
          LET r == ResolveId(realms[ri], "realm", m.sq.realm_no)
              realm == Pop(r.spec, "schemas")
              e == ExtractSchemas(Get(r.spec, "schemas", <<>>))
              schemas == IF Has(r.spec, "schemas")
                         THEN [given |-> TRUE, uris |-> e.schemas]
                         ELSE NoSchemas
              n == [m EXCEPT !.config.workers[m.sq.wi].realms[ri] = realm,
                             !.sq.realm_id = r.id,
                             !.sq.realm_no = r.no,
                             !.sq.role_no = 1,
                             !.sq.roi = 1]
          IN  IF e.err # ""
              THEN Raise(n, e.err)
              ELSE Call(n, "start_router_realm", r.id, 0, ri,
                        [realm |-> realm, schemas |-> schemas], "roles")

\* mutant: the next realm is started without the roles of the current one
RolesLeftOut(m) == Goto([m EXCEPT !.sq.ri = @ + 1], "realms")

Roles(m) ==
    LET realm == CurWorker(m).realms[m.sq.ri]
        roles == Get(realm, "roles", <<>>)
        roi == m.sq.roi
    IN  IF roi > Len(roles)
        THEN Goto([m EXCEPT !.sq.ri = @ + 1], "realms")
        ELSE
          LET r == ResolveId(roles[roi], "role", m.sq.role_no)
              n == [m EXCEPT
                      !.config.workers[m.sq.wi].realms[m.sq.ri].roles[roi] = r.spec,
                      !.sq.role_no = r.no,
                      !.sq.roi = roi + 1]
          IN  Call(n, "start_router_realm_role", r.id, m.sq.ri, roi, r.spec, "roles")

RComponents(m) ==
    LET components == Get(CurWorker(m), "components", <<>>)
        ci == m.sq.ci
    IN  IF ci > Len(components)
        THEN Goto([m EXCEPT !.sq.transport_no = 1, !.sq.ti = 1], "transports")
        ELSE
          LET r == ResolveId(components[ci], "component", m.sq.component_no)
              n == [m EXCEPT !.config.workers[m.sq.wi].components[ci] = r.spec,
                             !.sq.component_no = r.no,
                             !.sq.ci = ci + 1]
          IN  Call(n, "start_router_component", r.id, 0, ci, r.spec, "rcomponents")

\* mutant: a missing 'transports' key is read as an empty list
MissingTransportsIgnored(m) == Goto(m, "next_worker")

\* worker['transports'] of a spec without that key raises KeyError
MissingTransports(m) == Raise(m, "KeyError")

Transports(m) ==
    IF ~Has(CurWorker(m), "transports")
    THEN MissingTransports(m)
    ELSE
      LET transports == CurWorker(m).transports
          ti == m.sq.ti
      IN  IF ti > Len(transports)
          THEN Goto(m, "next_worker")
          ELSE
            LET r == ResolveId(transports[ti], "transport", m.sq.transport_no)
                n == [m EXCEPT !.config.workers[m.sq.wi].transports[ti] = r.spec,
                               !.sq.transport_no = r.no,
                               !.sq.ti = ti + 1]
            IN  Call(n, "start_router_transport", r.id, 0, ti, r.spec, "transports")

\* mutant: the removal of the subscription is never scheduled
CallLaterDropped(m, delay) == m

\* self._reactor.callLater(2, component_stop_sub.unsubscribe)
CallLater(m, delay) ==
    [m EXCEPT !.timers = @ \cup {[wi |-> m.sq.wi, left |-> delay]}]

\* mutant: the removal is scheduled when the first component is started
CComponentsEagerTimer(m) ==
    LET components == Get(CurWorker(m), "components", <<>>)
        ci == m.sq.ci
    IN  IF ci > Len(components)
        THEN Goto(IF ci = 1 THEN CallLater(m, Grace) ELSE m, "next_worker")
        ELSE
          LET r == ResolveId(components[ci], "component", m.sq.component_no)
              n == [m EXCEPT !.config.workers[m.sq.wi].components[ci] = r.spec,
                             !.sq.component_no = r.no,
                             !.sq.ci = ci + 1]
          IN  Call(IF ci = 1 THEN CallLater(n, Grace) ELSE n,
                   "start_container_component", r.id, 0, ci, r.spec,
                   "ccomponents")

CComponents(m) ==
    LET components == Get(CurWorker(m), "components", <<>>)
        ci == m.sq.ci
    IN  IF ci > Len(components)
        THEN Goto(CallLater(m, Grace), "next_worker")
        ELSE
          LET r == ResolveId(components[ci], "component", m.sq.component_no)
              n == [m EXCEPT !.config.workers[m.sq.wi].components[ci] = r.spec,
                             !.sq.component_no = r.no,
                             !.sq.ci = ci + 1]
          IN  Call(n, "start_container_component", r.id, 0, ci, r.spec,
                   "ccomponents")

\* mutant: the worker loop skips the entry after the current one
NextWorkerSkips(m) == Goto([m EXCEPT !.sq.wi = @ + 2], "workers")

\* next iteration of: for worker in config.get('workers', [])
NextWorker(m) == Goto([m EXCEPT !.sq.wi = @ + 1], "workers")

StepAt(m) ==
    CASE m.sq.pos = "ctl_manhole" -> CtlManhole(m)
      [] m.sq.pos = "ctl_transport" -> CtlTransport(m)
      [] m.sq.pos = "workers_init" -> WorkersInit(m)
      [] m.sq.pos = "workers" -> WorkerHead(m)
      [] m.sq.pos = "pythonpath" -> Pythonpath(m)
      [] m.sq.pos = "cpu_affinity" -> CpuAffinity(m)
      [] m.sq.pos = "manhole" -> Manhole(m)
      [] m.sq.pos = "subres" -> SubRes(m)
      [] m.sq.pos = "realms" -> Realms(m)
      [] m.sq.pos = "roles" -> Roles(m)
      [] m.sq.pos = "rcomponents" -> RComponents(m)
      [] m.sq.pos = "transports" -> Transports(m)
      [] m.sq.pos = "ccomponents" -> CComponents(m)
      [] m.sq.pos = "next_worker" -> NextWorker(m)

\* run the generator up to its next yield, its return or its exception
RECURSIVE Run(_)
Run(m) == IF m.out # "run" THEN m ELSE Run(StepAt(m))

(***************************************************************************)
(* start()                                                                 *)
(***************************************************************************)
\* mutant: controller.id is looked at before the manager section
ResolveNodeIdControllerFirst(cfg) ==
    LET controller_config == Get(cfg, "controller", EmptyDict) IN
    IF Has(controller_config, "id")
    THEN controller_config.id
    ELSE IF Has(cfg, "manager")
         THEN cfg.manager.id
         ELSE Hostname

\* the node's name
ResolveNodeId(cfg) ==
    LET controller_config == Get(cfg, "controller", EmptyDict) IN
    IF Has(cfg, "manager")
    THEN cfg.manager.id
    ELSE IF Has(controller_config, "id")
         THEN controller_config.id
         ELSE Hostname

\* mutant: ReactorNotRunning is not caught
FailureHandlerNoExcept(r) ==
    LET s == ReactorStop(r) IN
    IF s.raised = ""
    THEN [reactor |-> s.reactor, pc |-> "failed", fatal |-> "stop"]
    ELSE [reactor |-> s.reactor, pc |-> "raised", fatal |-> "escaped"]

\* except: traceback.print_exc(); try: reactor.stop() except ReactorNotRunning: pass
FailureHandler(r) ==
    LET s == ReactorStop(r) IN
    [reactor |-> s.reactor, pc |-> "failed",
     fatal |-> IF s.raised = "" THEN "stop" ELSE "absorbed"]

\* the sequencer has reached a yield, its end or an exception
Settle(m) ==
    /\ config' = m.config
    /\ calls' = m.calls
    /\ timers' = m.timers
    /\ sq' = m.sq
    /\ IF m.out = "raise"
       THEN LET h == FailureHandler(reactor) IN
            /\ reactor' = h.reactor
            /\ pc' = h.pc
            /\ fatal' = h.fatal
       ELSE /\ reactor' = reactor
            /\ fatal' = fatal
            /\ pc' = IF m.out = "done" THEN "returned" ELSE "standalone"

Machine(frame, log) ==
    [sq |-> frame, config |-> config, calls |-> log, timers |-> timers, out |-> "run"]

\* start() of a config without 'manager', up to the first yield of the sequencer
StartStandalone ==
    /\ pc = "init"
    /\ ~Has(config, "manager")
    /\ node_id' = ResolveNodeId(config)
    /\ controller_session' = TRUE
    /\ Settle(Run(Machine(sq, calls)))
    /\ UNCHANGED <<cfg0, subs, age, events>>

\* mutant: the management plane is bootstrapped before the uplink is connected
StartManagedBootstrapFirst ==
    /\ pc = "init"
    /\ Has(config, "manager")
    /\ node_id' = ResolveNodeId(config)
    /\ controller_session' = TRUE
    /\ pc' = "uplink"
    /\ UNCHANGED <<config, cfg0, sq, calls, subs, timers, age, events, reactor,
                   fatal>>

\* start() of a config with 'manager', up to: yield extra['onready']
StartManaged ==
    /\ pc = "init"
    /\ Has(config, "manager")
    /\ node_id' = ResolveNodeId(config)
    /\ pc' = "uplink"
    /\ UNCHANGED <<config, cfg0, sq, calls, subs, timers, age, events, reactor,
                   fatal, controller_session>>

\* onready fires: management plane bootstrap, then _startup_managed: yield sleep(1)
UplinkReady ==
    /\ pc = "uplink"
    /\ controller_session' = TRUE
    /\ pc' = "managed"
    /\ UNCHANGED <<config, cfg0, node_id, sq, calls, subs, timers, age, events,
                   reactor, fatal>>

\* onready fails: the yield is outside the try block of start()
UplinkFail ==
    /\ pc = "uplink"
    /\ pc' = "raised"
    /\ UNCHANGED <<config, cfg0, node_id, sq, calls, subs, timers, age, events,
                   reactor, fatal, controller_session>>

\* sleep(1) of _startup_managed is over
ManagedDone ==
    /\ pc = "managed"
    /\ pc' = "returned"
    /\ UNCHANGED <<config, cfg0, node_id, sq, calls, subs, timers, age, events,
                   reactor, fatal, controller_session>>

(***************************************************************************)
(* Results of the calls issued.                                            *)
(***************************************************************************)
Awaited(i) == pc = "standalone" /\ sq.await = i

\* call i returns its result; the sequencer resumes if it waits for it
CallReturn(i) ==
    /\ calls[i].st = "pending"
    /\ LET c == calls[i]
           log == [calls EXCEPT ![i].st = "returned"]
       IN  /\ subs' = IF c.op = "subscribe"
                      THEN [subs EXCEPT ![c.wi] = "active"]
                      ELSE subs
           /\ age' = IF c.op = "start_container_component"
                     THEN With(age, <<c.wi, c.ix>>, 0)
                     ELSE age
           /\ IF Awaited(i)
              THEN Settle(Run(Machine([sq EXCEPT !.await = 0], log)))
              ELSE /\ calls' = log
                   /\ UNCHANGED <<config, sq, timers, reactor, fatal, pc>>
    /\ UNCHANGED <<cfg0, node_id, events, controller_session>>

\* call i fails; the exception is thrown into the sequencer if it waits for it
CallFail(i) ==
    /\ calls[i].st = "pending"
    /\ LET log == [calls EXCEPT ![i].st = "failed"] IN
       IF Awaited(i)
       THEN Settle(Raise(Machine([sq EXCEPT !.await = 0], log), "rpc"))
       ELSE /\ calls' = log
            /\ UNCHANGED <<config, sq, timers, reactor, fatal, pc>>
    /\ UNCHANGED <<cfg0, node_id, subs, age, events, controller_session>>

(***************************************************************************)
(* The component watchdog.                                                 *)
(***************************************************************************)
\* mutant: the handler does not look at reactor.running
ComponentExitedNoGuard(r) == ReactorStop(r)

\* mutant: the handler logs the exit and leaves the loop alone
ComponentExitedLogsOnly(r) == [reactor |-> r, raised |-> ""]

\* def component_exited(info): if self._reactor.running: self._reactor.stop()
ComponentExited(r) ==
    IF r.running THEN ReactorStop(r) ELSE [reactor |-> r, raised |-> ""]

\* the on_component_stop event of component ci of worker w is published
StopEvent(w, ci) ==
    /\ <<w, ci>> \in DOMAIN age
    /\ Cardinality(events) < MaxEvents
    /\ LET h == IF subs[w] = "active"
                THEN ComponentExited(reactor)
                ELSE [reactor |-> reactor, raised |-> ""]
       IN  /\ reactor' = h.reactor
           /\ events' = events \cup
                {[wi |-> w, ci |-> ci, age |-> age[<<w, ci>>], sub |-> subs[w],
                  running |-> reactor.running,
                  handled |-> subs[w] = "active",
                  inflight |-> {calls[i].wi : i \in
                                  {j \in DOMAIN calls : calls[j].st = "pending"}},
                  shutdown |-> h.reactor.stops > reactor.stops,
                  raised |-> h.raised]}
    /\ age' = Pop(age, <<w, ci>>)
    /\ UNCHANGED <<config, cfg0, node_id, pc, sq, calls, subs, timers, fatal,
                   controller_session>>

\* the delayed call fires: component_stop_sub.unsubscribe()
TimerFire(w) ==
    /\ [wi |-> w, left |-> 0] \in timers
    /\ timers' = timers \ {[wi |-> w, left |-> 0]}
    /\ subs' = [subs EXCEPT ![w] = "unsubscribed"]
    /\ UNCHANGED <<config, cfg0, node_id, pc, sq, calls, age, events, reactor,
                   fatal, controller_session>>

\* one time unit passes on the running loop; due delayed calls fire first
Tick ==
    /\ reactor.running
    /\ \A t \in timers : t.left > 0
    /\ timers # {} \/ DOMAIN age # {}
    /\ timers' = {[t EXCEPT !.left = @ - 1] : t \in timers}
    /\ age' = [k \in {j \in DOMAIN age : age[j] + 1 < MaxAge} |-> age[k] + 1]
    /\ UNCHANGED <<config, cfg0, node_id, pc, sq, calls, subs, events, reactor,
                   fatal, controller_session>>

Next ==
    \/ StartStandalone
    \/ StartManaged
    \/ UplinkReady
    \/ UplinkFail
    \/ ManagedDone
    \/ \E i \in DOMAIN calls : CallReturn(i)
    \/ \E i \in DOMAIN calls : CallFail(i)
    \/ \E w \in DOMAIN subs : \E ci \in 1..(MaxComps + 1) : StopEvent(w, ci)
    \/ \E w \in DOMAIN subs : TimerFire(w)
    \/ Tick

Spec == Init /\ [][Next]_vars

\* every call issued gets its result or its failure, due delayed calls are run
\* and time passes on the running loop
FairSpec ==
    /\ Spec
    /\ WF_vars(\E i \in DOMAIN calls : CallFail(i) \/ CallReturn(i))
    /\ WF_vars(\E w \in DOMAIN subs : TimerFire(w))
    /\ WF_vars(Tick)

(***************************************************************************)
(* Vocabulary of the properties: the config as loaded and the call log.    *)
(***************************************************************************)
Workers0 == Get(cfg0, "workers", <<>>)

SpawnOps == {"start_router", "start_container", "start_guest"}

SetupOps == {"add_pythonpath", "set_cpu_affinity", "start_manhole"}

ListOps == {"start_router_realm", "start_router_realm_role",
            "start_router_component", "start_router_transport",
            "start_container_component"}

SpawnOpOf(type) ==
    CASE type = "router" -> "start_router"
      [] type = "container" -> "start_container"
      [] type = "guest" -> "start_guest"
      [] OTHER -> "none"

\* the list of the loaded config that a call of a list operation iterates
ListOf(c) ==
    LET w == Workers0[c.wi] IN
    CASE c.op = "start_router_realm" -> Get(w, "realms", <<>>)
      [] c.op = "start_router_realm_role" -> Get(w.realms[c.rix], "roles", <<>>)
      [] c.op = "start_router_component" -> Get(w, "components", <<>>)
      [] c.op = "start_container_component" -> Get(w, "components", <<>>)
      [] c.op = "start_router_transport" -> Get(w, "transports", <<>>)

KindOf(c) ==
    CASE c.op = "start_router_realm" -> "realm"
      [] c.op = "start_router_realm_role" -> "role"
      [] c.op = "start_router_component" -> "component"
      [] c.op = "start_container_component" -> "component"
      [] c.op = "start_router_transport" -> "transport"

SameList(c, d) == c.wi = d.wi /\ c.op = d.op /\ c.rix = d.rix

CallsOf(w) == {i \in DOMAIN calls : calls[i].wi = w}

Pending == {i \in DOMAIN calls : calls[i].st = "pending"}

\* number of list-element calls a worker spec asks for, transports excluded
RECURSIVE SumRoles(_, _)
SumRoles(realms, n) ==
    IF n = 0 THEN 0
    ELSE Len(Get(realms[n], "roles", <<>>)) + SumRoles(realms, n - 1)

SetupCount(w) ==
    LET o == Get(w, "options", EmptyDict) IN
    (IF Has(o, "pythonpath") THEN 1 ELSE 0)
    + (IF Has(o, "cpu_affinity") THEN 1 ELSE 0)
    + (IF Has(w, "manhole") THEN 1 ELSE 0)

RouterCallsBeforeTransports(w) ==
    1 + SetupCount(w) + Len(Get(w, "realms", <<>>))
    + SumRoles(Get(w, "realms", <<>>), Len(Get(w, "realms", <<>>)))
    + Len(Get(w, "components", <<>>))

WorkerCallCount(w) ==
    CASE w.type = "router" ->
           RouterCallsBeforeTransports(w) + Len(Get(w, "transports", <<>>))
      [] w.type = "container" ->
           2 + SetupCount(w) + Len(Get(w, "components", <<>>))
      [] OTHER -> 1

Returned(w) == {i \in CallsOf(w) : calls[i].st = "returned"}

StopRequested == fatal \in {"stop", "absorbed"} /\ ~reactor.running

(***************************************************************************)
(* C1: the calls follow declaration order: all calls of worker i precede   *)
(* the spawn call of worker i+1, workers are spawned in list order, each   *)
(* once, the spawn call being the first call of its worker; the elements   *)
(* of every list are started in list order, each once; and a startup that  *)
(* completes has started every worker and every list element.              *)
(***************************************************************************)
DeclarationOrder ==
    /\ \A i, j \in DOMAIN calls : i < j => calls[i].wi <= calls[j].wi
    /\ \A i \in DOMAIN calls :
         calls[i].wi >= 1 =>
           LET first == i = 1 \/ calls[i - 1].wi < calls[i].wi IN
           /\ (calls[i].op \in SpawnOps) = first
           /\ first =>
                /\ calls[i].op = SpawnOpOf(Workers0[calls[i].wi].type)
                /\ \/ i = 1 /\ calls[i].wi = 1
                   \/ i > 1 /\ calls[i - 1].wi = calls[i].wi - 1
    /\ \A i \in DOMAIN calls :
         calls[i].op \in ListOps =>
           /\ calls[i].ix \in 1..Len(ListOf(calls[i]))
           /\ Cardinality({j \in 1..(i - 1) : SameList(calls[j], calls[i])})
                = calls[i].ix - 1
    /\ pc = "returned" /\ ~Has(cfg0, "manager") =>
         \A w \in 1..Len(Workers0) :
           Cardinality(Returned(w)) = WorkerCallCount(Workers0[w])

DeclarationOrderWitness ==
    /\ pc = "returned"
    /\ Len(Workers0) = 2
    /\ \E i \in DOMAIN calls :
         calls[i].wi = 1 /\ calls[i].op = "start_container_component"
    /\ \E i \in DOMAIN calls :
         calls[i].wi = 2 /\ calls[i].op = "start_router_transport"
                         /\ calls[i].ix = 2

(***************************************************************************)
(* C2: at most one call issued by the sequencer is in flight, also while   *)
(* grace timers are pending.                                               *)
(***************************************************************************)
OneCallInFlight == Cardinality(Pending) <= 1

OneCallInFlightWitness ==
    /\ timers # {}
    /\ Cardinality(Pending) = 1
    /\ \E i \in Pending : calls[i].wi = 2

(***************************************************************************)
(* C3: a failed call is the last call issued, the except clause of start() *)
(* has requested the reactor stop, and ReactorNotRunning is absorbed:      *)
(* start() ends in its handler, no exception leaves it.                    *)
(***************************************************************************)
FailureIsFatal ==
    \A i \in DOMAIN calls :
      calls[i].st = "failed" =>
        /\ i = Len(calls)
        /\ pc = "failed"
        /\ sq.err = "rpc"
        /\ StopRequested

FailureIsFatalWitness ==
    /\ \E i \in DOMAIN calls : calls[i].st = "failed"
    /\ fatal = "absorbed"
    /\ pc = "failed"

(***************************************************************************)
(* C4: for a worker k of unrecognized type no call is ever issued for k or *)
(* a later worker; when the sequencer reaches k it raises, the stop of the *)
(* reactor is requested, and the calls of the workers before k are all     *)
(* there, returned.                                                        *)
(***************************************************************************)
UnknownTypeAborts ==
    \A k \in 1..Len(Workers0) :
      Workers0[k].type \notin KnownTypes =>
        /\ \A i \in DOMAIN calls : calls[i].wi < k
        /\ pc # "returned"
        /\ sq.wi = k /\ pc # "init" /\ ~Has(cfg0, "manager") =>
             /\ sq.err = "logic error"
             /\ pc = "failed"
             /\ StopRequested
             /\ \A w \in 1..(k - 1) :
                  Cardinality(Returned(w)) = WorkerCallCount(Workers0[w])

UnknownTypeAbortsWitness ==
    /\ sq.err = "logic error"
    /\ sq.wi = 2
    /\ \E i \in DOMAIN calls :
         calls[i].op = "start_router_transport" /\ calls[i].st = "returned"

(***************************************************************************)
(* C5: a router worker without 'transports' aborts startup exactly when    *)
(* its transport loop is reached: no start_router_transport call and no    *)
(* call of a later worker is ever issued; the abort (KeyError) has         *)
(* happened if and only if the spawn, setup, realm, role and component     *)
(* calls of the worker have all been issued and have returned.             *)
(***************************************************************************)
NoTransports(k) ==
    k \in 1..Len(Workers0) /\ Workers0[k].type = "router"
    /\ ~Has(Workers0[k], "transports")

MissingTransportsAbort ==
    \A k \in 1..Len(Workers0) :
      NoTransports(k) =>
        /\ \A i \in DOMAIN calls :
             \/ calls[i].wi < k
             \/ calls[i].wi = k /\ calls[i].op # "start_router_transport"
        /\ pc # "returned"
        /\ (Cardinality(Returned(k)) = RouterCallsBeforeTransports(Workers0[k]))
             = (sq.wi = k /\ sq.err = "KeyError")
        /\ sq.wi = k /\ sq.err = "KeyError" => pc = "failed" /\ StopRequested

MissingTransportsAbortWitness ==
    /\ sq.err = "KeyError"
    /\ sq.wi = 2
    /\ \E i \in DOMAIN calls :
         calls[i].wi = 2 /\ calls[i].op = "start_router_realm_role"
                         /\ calls[i].ix = 2 /\ calls[i].st = "returned"
    /\ \E i \in DOMAIN calls :
         calls[i].wi = 2 /\ calls[i].op = "start_router_component"
                         /\ calls[i].ix = 2 /\ calls[i].st = "returned"

(***************************************************************************)
(* C6: every call carries the id its entry resolves to: the explicit id,   *)
(* or "<kind>j" for the j-th entry without id of its list.                 *)
(***************************************************************************)
Unnamed(list, n) == {i \in 1..n : ~Has(list[i], "id")}

ExpectedId(list, n, kind) ==
    IF Has(list[n], "id")
    THEN list[n].id
    ELSE Format(kind, Cardinality(Unnamed(list, n)))

ResolvedIds ==
    \A i \in DOMAIN calls :
      LET c == calls[i] IN
      /\ c.wi >= 1 => c.worker_id = ExpectedId(Workers0, c.wi, "worker")
      /\ c.op \in SpawnOps => c.id = c.worker_id
      /\ c.op \in ListOps => c.id = ExpectedId(ListOf(c), c.ix, KindOf(c))
      /\ c.op = "start_router_realm_role" =>
           c.realm_id = ExpectedId(Workers0[c.wi].realms, c.rix, "realm")

ResolvedIdsWitness ==
    /\ \E i \in DOMAIN calls :
         /\ calls[i].op = "start_guest" /\ calls[i].wi = 3
         /\ calls[i].id = "worker2"
         /\ Has(Workers0[2], "id")
         /\ calls[i].st = "returned"

(***************************************************************************)
(* C7: in a list whose explicit ids are pairwise distinct, no two calls of *)
(* the list carry the same id.                                             *)
(***************************************************************************)
ExplicitDistinct(list) ==
    \A a, b \in 1..Len(list) :
      a < b /\ Has(list[a], "id") /\ Has(list[b], "id") => list[a].id # list[b].id

DistinctIds ==
    \A i, j \in DOMAIN calls :
      i < j =>
        /\ calls[i].op \in SpawnOps /\ calls[j].op \in SpawnOps
           /\ ExplicitDistinct(Workers0)
             => calls[i].id # calls[j].id
        /\ calls[i].op \in ListOps /\ SameList(calls[i], calls[j])
           /\ ExplicitDistinct(ListOf(calls[i]))
             => calls[i].id # calls[j].id

(***************************************************************************)
(* C8: a stop event delivered 1 time unit after the start call of its      *)
(* component returned, on a running loop, is handled and stops the         *)
(* reactor; the reactor is stopped once.                                   *)
(***************************************************************************)
EarlyExitStopsNode ==
    \A e \in events :
      e.age = 1 /\ e.running =>
        /\ e.handled
        /\ e.shutdown
        /\ ~reactor.running
        /\ reactor.stops = 1

EarlyExitStopsNodeWitness ==
    \E e \in events : e.age = 1 /\ e.running /\ e.shutdown /\ timers = {}

(***************************************************************************)
(* C9 as stated: for every component, a stop event delivered 3 time units  *)
(* after its start call returned finds the subscription removed and        *)
(* triggers no shutdown.                                                   *)
(***************************************************************************)
LateExitIgnored ==
    \A e \in events :
      e.age = 3 => e.sub = "unsubscribed" /\ ~e.handled /\ ~e.shutdown

(***************************************************************************)
(* C9 amended: the same for the last component of the worker's list, the   *)
(* one whose start call is followed by the callLater of the unsubscribe.   *)
(***************************************************************************)
IsLast(e) == e.ci = Len(Get(Workers0[e.wi], "components", <<>>))

LateExitOfLastIgnored ==
    \A e \in events :
      e.age = 3 /\ IsLast(e) =>
        e.sub = "unsubscribed" /\ ~e.handled /\ ~e.shutdown

LateExitOfLastIgnoredWitness ==
    \E e \in events :
      /\ e.age = 3 /\ IsLast(e) /\ e.ci = 2
      /\ e.sub = "unsubscribed" /\ e.running

(***************************************************************************)
(* C10: a start_container_component call is issued only after the         *)
(* subscribe call of its worker has returned; no component of a worker is  *)
(* started while the worker has no subscription.                           *)
(***************************************************************************)
SubscribedBeforeComponents ==
    \A i \in DOMAIN calls :
      calls[i].op = "start_container_component" =>
        /\ \E j \in 1..(i - 1) :
             /\ calls[j].op = "subscribe"
             /\ calls[j].wi = calls[i].wi
             /\ calls[j].st = "returned"
        /\ subs[calls[i].wi] # "none"

SubscribedBeforeComponentsWitness ==
    \E i \in DOMAIN calls :
      /\ calls[i].op = "start_container_component"
      /\ calls[i].st = "pending"
      /\ subs[calls[i].wi] = "active"


(***************************************************************************)
(* C11 as stated: the sub-phases of a router worker are sequential and no  *)
(* start_router_realm_role call is issued before the start_router_realm    *)
(* calls of all realms of that worker have completed.                      *)
(***************************************************************************)
RolesAfterAllRealms ==
    \A i \in DOMAIN calls :
      calls[i].op = "start_router_realm_role" =>
        \A r \in 1..Len(Get(Workers0[calls[i].wi], "realms", <<>>)) :
          \E j \in 1..(i - 1) :
            /\ calls[j].wi = calls[i].wi
            /\ calls[j].op = "start_router_realm"
            /\ calls[j].ix = r
            /\ calls[j].st = "returned"

\* realms and their roles, then components, then transports
PhaseRank(op) ==
    CASE op \in {"start_router_realm", "start_router_realm_role"} -> 1
      [] op = "start_router_component" -> 2
      [] op = "start_router_transport" -> 3
      [] OTHER -> 0

\* position of a realm or role call in the nested loop: (realm, role), role 0
\* being the start of the realm itself
RealmOf(c) == IF c.op = "start_router_realm" THEN c.ix ELSE c.rix

RoleOf(c) == IF c.op = "start_router_realm" THEN 0 ELSE c.ix

(***************************************************************************)
(* C11, amended: of a router worker, a call of a later sub-phase (realms   *)
(* with their roles, then components, then transports) is issued only      *)
(* after every call of the earlier sub-phases has returned, nothing of an  *)
(* earlier sub-phase being left out.  The roles are no sub-phase of their  *)
(* own: the roles of a realm are started, in order, right after the        *)
(* start_router_realm call of that realm has returned and before the next  *)
(* realm is started.                                                       *)
(***************************************************************************)
RouterPhasesSequential ==
    \A j \in DOMAIN calls :
      LET d == calls[j]
          w == Workers0[d.wi]
          realms == Get(w, "realms", <<>>)
          before == {i \in 1..(j - 1) : calls[i].wi = d.wi}
          ofRank(k) == {i \in before : PhaseRank(calls[i].op) = k}
      IN  PhaseRank(d.op) > 0 =>
            /\ \A i \in before :
                 /\ PhaseRank(calls[i].op) <= PhaseRank(d.op)
                 /\ calls[i].st = "returned"
            /\ PhaseRank(d.op) > 1 =>
                 Cardinality(ofRank(1)) = Len(realms) + SumRoles(realms, Len(realms))
            /\ PhaseRank(d.op) > 2 =>
                 Cardinality(ofRank(2)) = Len(Get(w, "components", <<>>))
            /\ PhaseRank(d.op) = 1 =>
                 \* the call before it in the nested loop is the call just before it
                 IF RoleOf(d) > 0
                 THEN /\ j > 1
                      /\ calls[j - 1].wi = d.wi
                      /\ PhaseRank(calls[j - 1].op) = 1
                      /\ RealmOf(calls[j - 1]) = RealmOf(d)
                      /\ RoleOf(calls[j - 1]) = RoleOf(d) - 1
                 ELSE RealmOf(d) > 1 =>
                      /\ calls[j - 1].wi = d.wi
                      /\ PhaseRank(calls[j - 1].op) = 1
                      /\ RealmOf(calls[j - 1]) = RealmOf(d) - 1
                      /\ RoleOf(calls[j - 1])
                           = Len(Get(realms[RealmOf(d) - 1], "roles", <<>>))

\* the second realm of a worker is started after the roles of its first realm
RouterPhasesSequentialWitness ==
    \E i, j \in DOMAIN calls :
      /\ i < j
      /\ calls[i].wi = calls[j].wi
      /\ calls[i].op = "start_router_realm_role"
      /\ calls[j].op = "start_router_realm"
      /\ calls[j].st = "returned"


(***************************************************************************)
(* C12: when the uplink connect or the wait for its readiness fails, the   *)
(* startup is over before any worker is started and the event loop has     *)
(* been requested to stop.                                                 *)
(***************************************************************************)
UplinkFailureStopsNode ==
    (Has(cfg0, "manager") /\ pc = "raised") =>
      /\ \A i \in DOMAIN calls : calls[i].op \notin SpawnOps
      /\ ~reactor.running


(***************************************************************************)
(* C13: from start() on, in every later state, the node id is manager.id   *)
(* when the loaded config has a manager section, whatever controller.id    *)
(* is; otherwise controller.id when present; otherwise the host name.      *)
(***************************************************************************)
NodeIdPrecedence ==
    pc # "init" =>
      LET controller == Get(cfg0, "controller", EmptyDict) IN
      /\ Has(cfg0, "manager") => node_id = cfg0.manager.id
      /\ (~Has(cfg0, "manager") /\ Has(controller, "id")) => node_id = controller.id
      /\ (~Has(cfg0, "manager") /\ ~Has(controller, "id")) => node_id = Hostname

\* a managed node whose controller section names another id has started up
NodeIdPrecedenceWitness ==
    /\ pc = "returned"
    /\ Has(cfg0, "manager")
    /\ Has(Get(cfg0, "controller", EmptyDict), "id")
    /\ cfg0.controller.id # cfg0.manager.id
    /\ node_id = cfg0.manager.id


\* the declarations of a list of files that the extractor accepts, in file order
\* and, within a file, in block order
RECURSIVE AcceptedDecls(_)
AcceptedDecls(schema_files) ==
    IF schema_files = <<>> THEN <<>>
    ELSE LET accepted(d) == /\ d.kind = "object"
                            /\ Has(d.members, SchemaKey)
                            /\ d.members[SchemaKey] = WampSchema
                            /\ Has(d.members, "uri")
         IN  SelectSeq(Files[Head(schema_files)], accepted)
               \o AcceptedDecls(Tail(schema_files))

\* left-to-right shallow merge: under each uri, every member has the value of
\* the last declaration of that uri that has the member
MergedRegistry(schema_files) ==
    LET ds == AcceptedDecls(schema_files)
        of(u) == {i \in DOMAIN ds : ds[i].members.uri = u}
        last(u, k) == CHOOSE i \in of(u) :
                        /\ k \in DOMAIN ds[i].members
                        /\ \A j \in of(u) : k \in DOMAIN ds[j].members => j <= i
    IN  [u \in {ds[i].members.uri : i \in DOMAIN ds} |->
           [k \in UNION {DOMAIN ds[i].members : i \in of(u)} |->
              ds[last(u, k)].members[k]]]

\* the schema files of the realm that call c starts, as loaded
SchemaFilesOf(c) == Workers0[c.wi].realms[c.ix].schemas

RealmCalls ==
    {i \in DOMAIN calls : calls[i].op = "start_router_realm"}

(***************************************************************************)
(* C14: the registry passed to start_router_realm holds, under each uri,   *)
(* the left-to-right shallow merge of the accepted declarations of that    *)
(* uri in file-list order and block order: files [A, B] give a = 2, b = 3  *)
(* under x, files [B, A] give a = 1, b = 3, and a list naming a file twice *)
(* gives the registry of the list naming it once.  A realm without schema  *)
(* files gets no registry.                                                 *)
(***************************************************************************)
SchemaMergeOrder ==
    \A i \in RealmCalls :
      LET c == calls[i]
          reg == c.arg.schemas
      IN  IF ~Has(Workers0[c.wi].realms[c.ix], "schemas")
          THEN reg = NoSchemas
          ELSE
            LET fs == SchemaFilesOf(c) IN
            /\ reg.given
            /\ reg.uris = MergedRegistry(fs)
            /\ fs = <<"a.md", "b.md">> =>
                 reg.uris["x"].a = "2" /\ reg.uris["x"].b = "3"
            /\ fs = <<"b.md", "a.md">> =>
                 reg.uris["x"].a = "1" /\ reg.uris["x"].b = "3"
            /\ (Len(fs) = 2 /\ fs[1] = fs[2]) =>
                 reg.uris = MergedRegistry(<<fs[1]>>)

\* a realm was started with the registry of files [B, A]
SchemaMergeOrderWitness ==
    \E i \in RealmCalls :
      /\ Has(Workers0[calls[i].wi].realms[calls[i].ix], "schemas")
      /\ SchemaFilesOf(calls[i]) = <<"b.md", "a.md">>
      /\ calls[i].st = "returned"
      /\ calls[i].arg.schemas.uris["x"].a = "1"


Containers == {w \in DOMAIN Workers0 : Workers0[w].type = "container"}

ComponentsOf(w) == Get(Workers0[w], "components", <<>>)

\* the subscribe call of worker w has returned
Subscribed(w) ==
    \E i \in Returned(w) : calls[i].op = "subscribe"

\* the subscription is made and every component start of worker w has returned
AllStarted(w) ==
    /\ Subscribed(w)
    /\ Cardinality({i \in Returned(w) : calls[i].op = "start_container_component"})
         = Len(ComponentsOf(w))

(***************************************************************************)
(* C16: for a container worker whose component starts all succeed, the     *)
(* subscription is active from the return of subscribe until exactly 2     *)
(* time units after the return of the last start_container_component      *)
(* call: its removal is scheduled once, 2 time units ahead, only after all *)
(* components have been started, for an empty or absent component list as  *)
(* well; while the removal is pending the time since the last start        *)
(* returned and the time left add up to 2, and the subscription is gone    *)
(* once more than 2 time units have passed.                                *)
(***************************************************************************)
GraceWindow ==
    \A w \in Containers :
      LET n == Len(ComponentsOf(w))
          pending == {t \in timers : t.wi = w}
          tracked == n > 0 /\ <<w, n>> \in DOMAIN age
      IN  /\ Cardinality(pending) <= 1
          /\ \A t \in pending :
               /\ AllStarted(w)
               /\ t.left <= 2
               /\ subs[w] = "active"
               /\ tracked => t.left + age[<<w, n>>] = 2
          /\ AllStarted(w) => pending # {} \/ subs[w] = "unsubscribed"
          /\ (Subscribed(w) /\ subs[w] # "unsubscribed") => subs[w] = "active"
          /\ subs[w] = "unsubscribed" =>
               /\ AllStarted(w)
               /\ pending = {}
               /\ tracked => age[<<w, n>>] >= 2
          /\ (AllStarted(w) /\ tracked /\ age[<<w, n>>] > 2) =>
               subs[w] = "unsubscribed"

\* the subscription of a container is removed when its last component has
\* been up for 2 time units
GraceWindowWitness ==
    \E w \in Containers :
      LET n == Len(ComponentsOf(w)) IN
      /\ n > 0
      /\ <<w, n>> \in DOMAIN age
      /\ age[<<w, n>>] = 2
      /\ subs[w] = "unsubscribed"


(***************************************************************************)
(* C17: the watchdog does not hold the sequencer back.  While the removal  *)
(* of worker i's subscription is pending the sequencer is past worker i    *)
(* and, if a worker follows, has gone on to it; and a stop event of worker *)
(* i that is delivered on the running loop while its subscription is       *)
(* active and a call of a later worker is in flight requests the shutdown  *)
(* of the node.                                                            *)
(***************************************************************************)
WatchdogDoesNotBlock ==
    /\ \A t \in timers :
         /\ sq.wi > t.wi
         /\ t.wi < Len(Workers0) =>
              \/ CallsOf(t.wi + 1) # {}
              \/ Workers0[t.wi + 1].type \notin KnownTypes /\ pc = "failed"
    /\ \A e \in events :
         (e.sub = "active" /\ e.running /\ \E v \in e.inflight : v > e.wi) =>
           /\ e.handled
           /\ e.shutdown
           /\ ~reactor.running

\* a component of worker 1 exits while a call of worker 2 is in flight and
\* the subscription of worker 1 is active
WatchdogDoesNotBlockWitness ==
    \E e \in events :
      /\ e.sub = "active"
      /\ e.running
      /\ \E v \in e.inflight : v > e.wi
      /\ e.shutdown


(***************************************************************************)
(* C18: once the watchdog handler has requested the shutdown of the node,  *)
(* the sequencer issues no further startup call.                           *)
(***************************************************************************)
NoCallAfterWatchdogStop ==
    [][(\E e \in events : e.shutdown) => Len(calls') = Len(calls)]_vars


\* the generic setup calls that the loaded spec of worker w asks for
Configured(w) ==
    LET o == Get(Workers0[w], "options", EmptyDict) IN
    {op \in SetupOps :
       \/ op = "add_pythonpath" /\ Has(o, "pythonpath")
       \/ op = "set_cpu_affinity" /\ Has(o, "cpu_affinity")
       \/ op = "start_manhole" /\ Has(Workers0[w], "manhole")}

SetupRank(op) ==
    CASE op = "add_pythonpath" -> 1
      [] op = "set_cpu_affinity" -> 2
      [] op = "start_manhole" -> 3
      [] OTHER -> 0

(***************************************************************************)
(* C19 as stated: a startup that has completed has issued, for each worker *)
(* of any type, guests included, the generic setup calls that its spec     *)
(* asks for.                                                               *)
(***************************************************************************)
SetupForEveryType ==
    pc = "returned" =>
      \A w \in DOMAIN Workers0 :
        \A op \in Configured(w) :
          \E i \in CallsOf(w) : calls[i].op = op

(***************************************************************************)
(* C19, amended: for a router or container worker the generic setup calls  *)
(* that its spec asks for are issued after its spawn call has returned, in *)
(* the order add_pythonpath, set_cpu_affinity, start_manhole, each once    *)
(* and one after the return of the other, all of them before the first     *)
(* sub-resource call of the worker; a setup call whose key is absent is    *)
(* not issued; and for a guest worker no setup call is issued, whatever    *)
(* its spec asks for.                                                      *)
(***************************************************************************)
NativeSetupOrder ==
    /\ \A i \in DOMAIN calls :
         LET c == calls[i]
             before == {j \in 1..(i - 1) : calls[j].wi = c.wi}
         IN  /\ c.op \in SetupOps =>
                  /\ Workers0[c.wi].type \in {"router", "container"}
                  /\ c.op \in Configured(c.wi)
                  /\ \E j \in before : calls[j].op \in SpawnOps
                  /\ \A j \in before :
                       /\ calls[j].st = "returned"
                       /\ \/ calls[j].op \in SpawnOps
                          \/ /\ calls[j].op \in SetupOps
                             /\ SetupRank(calls[j].op) < SetupRank(c.op)
             /\ c.op \in ListOps \cup {"subscribe"} =>
                  \A op \in Configured(c.wi) :
                    \E j \in before : calls[j].op = op /\ calls[j].st = "returned"
    /\ pc = "returned" =>
         \A w \in DOMAIN Workers0 :
           Workers0[w].type \in {"router", "container"} =>
             \A op \in Configured(w) :
               \E i \in CallsOf(w) : calls[i].op = op

\* a router that asks for the three setup calls has started up with a transport
NativeSetupOrderWitness ==
    \E i \in DOMAIN calls :
      /\ calls[i].op = "start_router_transport"
      /\ Configured(calls[i].wi) = SetupOps
      /\ pc = "returned"


(***************************************************************************)
(* C20: when every call issued returns or fails and the delayed calls are  *)
(* run, a watchdog subscription that is active is eventually removed,      *)
(* unless the stop of the event loop is requested.                         *)
(***************************************************************************)
SubscriptionEnds ==
    \A w \in 1..MaxWorkers :
      (w \in DOMAIN subs /\ subs[w] = "active")
        ~> (\/ w \in DOMAIN subs /\ subs[w] = "unsubscribed"
            \/ ~reactor.running)

\* a subscription has been removed on the running loop
SubscriptionEndsWitness ==
    \E w \in DOMAIN subs :
      /\ subs[w] = "unsubscribed"
      /\ reactor.running
      /\ pc = "returned"

====
